---- MODULE Spec2Model ----
(***************************************************************************)
(* Remove One: the game-state machine of remove_one/games/remove_one.      *)
(* A state is the immutable RemoveOneState value the engine currently      *)
(* holds; each step replaces it by the value apply_action returns.         *)
(***************************************************************************)
EXTENDS Integers, Sequences, FiniteSets, TLC

\* ---- bound of the model --------------------------------------------------
\* rounds the model plays before it stops
MaxRound == 2

\* ---- program constants ---------------------------------------------------
\* the round number _handle_elimination and is_terminal compare against
FinalRound == 18

\* the configurations a game is created with (the dict handed to RemoveOneGame)
Configs ==
    { [ num_players |-> 3, hand_size |-> 3, advancement_rounds |-> << 1, 2 >> ],
      [ num_players |-> 3, hand_size |-> 3, advancement_rounds |-> << 2, 4 >> ],
      [ num_players |-> 2, hand_size |-> 4, advancement_rounds |-> << 2, 4 >> ] }

VARIABLES
    players,            \* Tuple[RemoveOnePlayer, ...], indexed by player_id
    round_num,
    phase,
    revealed_cards,     \* Dict[int, Tuple[int, int]]
    final_choices,      \* Dict[int, int]
    advancement_rounds,
    discard_pile,
    config,
    resolved,           \* locals of the last _resolve_round call
    bots,               \* run_game's bots argument: the class of the bot in each seat
    pc,                 \* where run_game stands
    actions,            \* _collect_simultaneous_actions' dict, in insertion order
    bot_views,          \* the bot_view handed to each bot asked in this collection
    history,            \* the entries run_game appended to history for the last batch
    observed            \* the observe_action calls _notify_bots made for the last batch

\* run_game's own locals
engine_vars == << bots, pc, actions, bot_views, history, observed >>

vars == << players, round_num, phase, revealed_cards, final_choices,
           advancement_rounds, discard_pile, config, resolved,
           bots, pc, actions, bot_views, history, observed >>

\* ---- tuples, lists and dicts ---------------------------------------------
Range(s) == { s[i] : i \in DOMAIN s }

Contains(s, x) == \E i \in DOMAIN s : s[i] = x

\* list.remove(x): drops the first occurrence of x
RemoveFirst(s, x) ==
    LET i == CHOOSE k \in DOMAIN s : s[k] = x /\ \A j \in 1 .. (k - 1) : s[j] # x
    IN  SubSeq(s, 1, i - 1) \o SubSeq(s, i + 1, Len(s))

\* "if card in new_hand: new_hand.remove(card)"
RemoveIfPresent(s, x) == IF Contains(s, x) THEN RemoveFirst(s, x) ELSE s

\* x placed after the elements of the sorted sequence s that are not larger
Insert(s, x) ==
    LET k == Cardinality({ i \in DOMAIN s : s[i] <= x })
    IN  SubSeq(s, 1, k) \o << x >> \o SubSeq(s, k + 1, Len(s))

\* tuple(sorted(new_hand))
RECURSIVE Sorted(_)
Sorted(s) ==
    IF \A i \in 1 .. (Len(s) - 1) : s[i] <= s[i + 1] THEN s
    ELSE Insert(Sorted(SubSeq(s, 1, Len(s) - 1)), s[Len(s)])

EmptyDict == << >>

\* an existing entry kept instead of replaced
DictPut_keep_first(d, k, v) ==
    IF k \in DOMAIN d THEN d
    ELSE [ x \in (DOMAIN d) \cup {k} |-> IF x = k THEN v ELSE d[x] ]

DictPut(d, k, v) == [ x \in (DOMAIN d) \cup {k} |-> IF x = k THEN v ELSE d[x] ]

\* ---- RemoveOneGame.__init__ ----------------------------------------------
InitialPlayer(i, hand_size) ==
    [ player_id |-> i,
      hand |-> [ c \in 1 .. hand_size |-> c ],
      holding_box |-> << >>,
      score |-> 0,
      victory_tokens |-> 0,
      eliminated |-> FALSE,
      last_victory_round |-> 0 ]

InitialState(cfg) ==
    [ players |-> [ i \in 0 .. (cfg.num_players - 1) |-> InitialPlayer(i, cfg.hand_size) ],
      round_num |-> 1,
      phase |-> "select",
      revealed_cards |-> EmptyDict,
      final_choices |-> EmptyDict,
      advancement_rounds |-> cfg.advancement_rounds,
      discard_pile |-> << >>,
      config |-> cfg ]

\* ---- RemoveOneState ------------------------------------------------------
PlayerIds(s) == DOMAIN s.players

\* [p.player_id for p in self.players if not p.eliminated]
ActiveIds(s) == { p \in PlayerIds(s) : ~ s.players[p].eliminated }

\* index pairs (i, j) with i < j: "for i, card1 in enumerate(hand) for card2 in hand[i+1:]"
IndexPairs(hand) == { ij \in (DOMAIN hand) \X (DOMAIN hand) : ij[1] < ij[2] }

get_legal_actions(s, player_id) ==
    IF s.players[player_id].eliminated THEN {}
    ELSE IF s.phase = "select" THEN
        LET hand == s.players[player_id].hand
        IN  { [ action_type |-> "select_cards", cards |-> << hand[ij[1]], hand[ij[2]] >> ] :
                  ij \in IndexPairs(hand) }
    ELSE IF s.phase = "choose" THEN
        LET revealed == IF player_id \in DOMAIN s.revealed_cards
                        THEN s.revealed_cards[player_id] ELSE << >>
        IN  { [ action_type |-> "choose_final", final_card |-> revealed[i] ] :
                  i \in DOMAIN revealed }
    ELSE {}

is_terminal(s) ==
    LET n == Cardinality(ActiveIds(s))
    IN  n <= 1 \/ (s.round_num > FinalRound /\ n <= 2)

\* the round counter advanced by two
advance_to_next_round_by_two(state) == [ state EXCEPT !.round_num = state.round_num + 2 ]

advance_to_next_round(state) == [ state EXCEPT !.round_num = state.round_num + 1 ]

\* ---- _handle_elimination -------------------------------------------------
\* Python tuple comparison on (score, victory_tokens, last_victory_round)
LexLess(a, b) ==
    \/ a[1] < b[1]
    \/ a[1] = b[1] /\ a[2] < b[2]
    \/ a[1] = b[1] /\ a[2] = b[2] /\ a[3] < b[3]

\* the leader key without its last component
HighKey_without_round(p) == << p.score, p.victory_tokens, 0 >>

HighKey(p) == << p.score, p.victory_tokens, p.last_victory_round >>

LowKey(p) == << p.score, p.victory_tokens, 0 - p.last_victory_round >>

\* max(active_players, key=...): the first maximal element in player order
highest_scorer(state) ==
    CHOOSE p \in ActiveIds(state) :
        /\ \A q \in ActiveIds(state) :
               ~ LexLess(HighKey(state.players[p]), HighKey(state.players[q]))
        /\ \A q \in ActiveIds(state) :
               q < p => LexLess(HighKey(state.players[q]), HighKey(state.players[p]))

\* min(active_players, key=...): the first minimal element in player order
lowest_scorer(state) ==
    CHOOSE p \in ActiveIds(state) :
        /\ \A q \in ActiveIds(state) :
               ~ LexLess(LowKey(state.players[q]), LowKey(state.players[p]))
        /\ \A q \in ActiveIds(state) :
               q < p => LexLess(LowKey(state.players[p]), LowKey(state.players[q]))

Eliminate(state, p) == [ state EXCEPT !.players[p].eliminated = TRUE ]

\* away from the final round both the highest and the lowest scorer eliminated
handle_elimination_both_ends(state) ==
    IF state.round_num = FinalRound
    THEN IF Cardinality(ActiveIds(state)) = 3
         THEN Eliminate(state, lowest_scorer(state))
         ELSE state
    ELSE IF Cardinality(ActiveIds(state)) > 1
         THEN Eliminate(Eliminate(state, highest_scorer(state)), lowest_scorer(state))
         ELSE state

\* _handle_elimination
handle_elimination(state) ==
    IF state.round_num = FinalRound
    THEN IF Cardinality(ActiveIds(state)) = 3
         THEN Eliminate(state, lowest_scorer(state))
         ELSE state
    ELSE IF Cardinality(ActiveIds(state)) > 1
         THEN Eliminate(state, highest_scorer(state))
         ELSE state

\* ---- _resolve_round ------------------------------------------------------
\* card_counts[card]
CardCount(choices, card) == Cardinality({ p \in DOMAIN choices : choices[p] = card })

\* every submitted card counted as unique
unique_cards_any_count(choices) == { c \in Range(choices) : CardCount(choices, c) >= 1 }

\* unique_cards.keys()
unique_cards(choices) == { c \in Range(choices) : CardCount(choices, c) = 1 }

\* the largest card submitted once instead of the smallest
winning_card_largest(choices) ==
    CHOOSE c \in unique_cards(choices) : \A d \in unique_cards(choices) : c >= d

\* min(unique_cards.keys())
winning_card(choices) ==
    CHOOSE c \in unique_cards(choices) : \A d \in unique_cards(choices) : c <= d

\* next(pid for pid, card in final_choices.items() if card == winning_card)
winner_id(choices) == CHOOSE p \in DOMAIN choices : choices[p] = winning_card(choices)

\* next(card for card in revealed if card != final_choice); a legal pair holds
\* two different cards, so the search always finds one
unused_card(revealed, final_choice) ==
    IF revealed[1] # final_choice THEN revealed[1] ELSE revealed[2]

\* only the first revealed card removed from the new hand
RemoveRevealed_first_only(new_hand, revealed) ==
    RemoveIfPresent(new_hand, revealed[1])

\* the two "for card in revealed: if card in new_hand: new_hand.remove(card)" passes
RemoveRevealed(new_hand, revealed) ==
    RemoveIfPresent(RemoveIfPresent(new_hand, revealed[1]), revealed[2])

\* the winner's unchosen card put back into the hand, the holding box left empty
RelocateWinner_to_hand(s, player, choices) ==
    LET new_hand == player.hand \o player.holding_box
        pid == player.player_id
    IN  IF pid \in DOMAIN s.revealed_cards
        THEN LET revealed == s.revealed_cards[pid]
                 unused == unused_card(revealed, choices[pid])
             IN  [ player EXCEPT
                     !.hand = Sorted(Append(RemoveRevealed(new_hand, revealed), unused)),
                     !.holding_box = << >> ]
        ELSE [ player EXCEPT !.hand = Sorted(new_hand), !.holding_box = << >> ]

\* loop body of _award_points_and_advance for the winner
RelocateWinner(s, player, choices) ==
    LET new_hand == player.hand \o player.holding_box
        pid == player.player_id
    IN  IF pid \in DOMAIN s.revealed_cards
        THEN LET revealed == s.revealed_cards[pid]
                 unused == unused_card(revealed, choices[pid])
             IN  [ player EXCEPT
                     !.hand = Sorted(RemoveRevealed(new_hand, revealed)),
                     !.holding_box = << unused >> ]
        ELSE [ player EXCEPT !.hand = Sorted(new_hand), !.holding_box = << >> ]

\* the unchosen card not appended to the hand before the revealed cards are removed
RelocateOther_unused_lost(s, player, choices) ==
    LET new_hand == player.hand \o player.holding_box
        pid == player.player_id
    IN  IF pid \in DOMAIN s.revealed_cards
        THEN LET revealed == s.revealed_cards[pid]
             IN  [ player EXCEPT
                     !.hand = Sorted(RemoveRevealed(new_hand, revealed)),
                     !.holding_box = << choices[pid] >> ]
        ELSE [ player EXCEPT !.hand = Sorted(new_hand), !.holding_box = << >> ]

\* the old holding-box card overwritten instead of returned to the hand
RelocateOther_box_lost(s, player, choices) ==
    LET new_hand == player.hand
        pid == player.player_id
    IN  IF pid \in DOMAIN s.revealed_cards
        THEN LET revealed == s.revealed_cards[pid]
                 unused == unused_card(revealed, choices[pid])
             IN  [ player EXCEPT
                     !.hand = Sorted(RemoveRevealed(Append(new_hand, unused), revealed)),
                     !.holding_box = << choices[pid] >> ]
        ELSE [ player EXCEPT !.hand = Sorted(new_hand), !.holding_box = << >> ]

\* loop body of _award_points_and_advance for a non-winner, and of
\* _advance_round_no_winner for everyone
RelocateOther(s, player, choices) ==
    LET new_hand == player.hand \o player.holding_box
        pid == player.player_id
    IN  IF pid \in DOMAIN s.revealed_cards
        THEN LET revealed == s.revealed_cards[pid]
                 unused == unused_card(revealed, choices[pid])
             IN  [ player EXCEPT
                     !.hand = Sorted(RemoveRevealed(Append(new_hand, unused), revealed)),
                     !.holding_box = << choices[pid] >> ]
        ELSE [ player EXCEPT !.hand = Sorted(new_hand), !.holding_box = << >> ]

\* the points awarded without a victory token
AwardWinner_no_token(s, winner, card) ==
    [ winner EXCEPT
        !.score = winner.score + card,
        !.last_victory_round = s.round_num ]

\* one point per win instead of the winning card's value
AwardWinner_one_point(s, winner, card) ==
    [ winner EXCEPT
        !.score = winner.score + 1,
        !.victory_tokens = winner.victory_tokens + 1,
        !.last_victory_round = s.round_num ]

\* dataclasses.replace(winner, score=..., victory_tokens=..., last_victory_round=...)
AwardWinner(s, winner, card) ==
    [ winner EXCEPT
        !.score = winner.score + card,
        !.victory_tokens = winner.victory_tokens + 1,
        !.last_victory_round = s.round_num ]

\* _handle_elimination called after every round with a winner
award_points_and_advance_every_round(s, winner, card, choices) ==
    LET awarded == [ s.players EXCEPT ![winner] = AwardWinner(s, s.players[winner], card) ]
        new_players ==
            [ p \in PlayerIds(s) |->
                IF awarded[p].eliminated THEN awarded[p]
                ELSE IF p = winner THEN RelocateWinner(s, awarded[p], choices)
                ELSE RelocateOther(s, awarded[p], choices) ]
        new_state == [ s EXCEPT
                         !.players = new_players,
                         !.phase = "select",
                         !.revealed_cards = EmptyDict,
                         !.final_choices = EmptyDict ]
    IN  advance_to_next_round(handle_elimination(new_state))

award_points_and_advance(s, winner, card, choices) ==
    LET awarded == [ s.players EXCEPT ![winner] = AwardWinner(s, s.players[winner], card) ]
        new_players ==
            [ p \in PlayerIds(s) |->
                IF awarded[p].eliminated THEN awarded[p]
                ELSE IF p = winner THEN RelocateWinner(s, awarded[p], choices)
                ELSE RelocateOther(s, awarded[p], choices) ]
        new_state == [ s EXCEPT
                         !.players = new_players,
                         !.phase = "select",
                         !.revealed_cards = EmptyDict,
                         !.final_choices = EmptyDict ]
    IN  IF s.round_num \in Range(s.advancement_rounds)
        THEN advance_to_next_round(handle_elimination(new_state))
        ELSE advance_to_next_round(new_state)

\* the relocation loop without "if player.eliminated: continue"
advance_round_no_winner_all_players(s, choices) ==
    LET new_players ==
            [ p \in PlayerIds(s) |-> RelocateOther(s, s.players[p], choices) ]
        new_state == [ s EXCEPT
                         !.players = new_players,
                         !.phase = "select",
                         !.revealed_cards = EmptyDict,
                         !.final_choices = EmptyDict ]
    IN  advance_to_next_round(new_state)

\* revealed_cards and final_choices carried into the next round
advance_round_no_winner_maps_kept(s, choices) ==
    LET new_players ==
            [ p \in PlayerIds(s) |->
                IF s.players[p].eliminated THEN s.players[p]
                ELSE RelocateOther(s, s.players[p], choices) ]
        new_state == [ s EXCEPT
                         !.players = new_players,
                         !.phase = "select",
                         !.final_choices = choices ]
    IN  advance_to_next_round(new_state)

advance_round_no_winner(s, choices) ==
    LET new_players ==
            [ p \in PlayerIds(s) |->
                IF s.players[p].eliminated THEN s.players[p]
                ELSE RelocateOther(s, s.players[p], choices) ]
        new_state == [ s EXCEPT
                         !.players = new_players,
                         !.phase = "select",
                         !.revealed_cards = EmptyDict,
                         !.final_choices = EmptyDict ]
    IN  advance_to_next_round(new_state)

resolve_round(s, choices) ==
    IF unique_cards(choices) # {}
    THEN award_points_and_advance(s, winner_id(choices), winning_card(choices), choices)
    ELSE advance_round_no_winner(s, choices)

\* what the last _resolve_round call worked on and decided: the state it was
\* called on (self), the complete final_choices it was given, and its locals
\* winner_id / winning_card when unique_cards was not empty
ResolveLocals(s, choices) ==
    IF unique_cards(choices) # {}
    THEN [ done |-> TRUE, has_winner |-> TRUE, before |-> s, final_choices |-> choices,
           winner_id |-> winner_id(choices), winning_card |-> winning_card(choices) ]
    ELSE [ done |-> TRUE, has_winner |-> FALSE, before |-> s, final_choices |-> choices ]

\* ---- apply_action --------------------------------------------------------
\* the phase advanced one selection early
SelectCompletes_one_short(s, player_id) ==
    Cardinality((DOMAIN s.revealed_cards) \cup {player_id}) + 1 = Cardinality(ActiveIds(s))

SelectCompletes(s, player_id) ==
    Cardinality((DOMAIN s.revealed_cards) \cup {player_id}) = Cardinality(ActiveIds(s))

ChooseCompletes(s, player_id) ==
    Cardinality((DOMAIN s.final_choices) \cup {player_id}) = Cardinality(ActiveIds(s))

\* the selected cards taken out of the hand as soon as they are revealed
apply_action_hand_reduced(s, action, player_id) ==
    IF action.action_type = "select_cards"
    THEN LET new_revealed == DictPut(s.revealed_cards, player_id, action.cards)
             new_hand == RemoveRevealed(s.players[player_id].hand, action.cards)
         IN  IF SelectCompletes(s, player_id)
             THEN [ s EXCEPT !.revealed_cards = new_revealed, !.phase = "choose",
                             !.players[player_id].hand = new_hand ]
             ELSE [ s EXCEPT !.revealed_cards = new_revealed,
                             !.players[player_id].hand = new_hand ]
    ELSE IF action.action_type = "choose_final"
    THEN LET new_choices == DictPut(s.final_choices, player_id, action.final_card)
         IN  IF ChooseCompletes(s, player_id)
             THEN resolve_round(s, new_choices)
             ELSE [ s EXCEPT !.final_choices = new_choices ]
    ELSE s

\* RemoveOneState.apply_action
apply_action(s, action, player_id) ==
    IF action.action_type = "select_cards"
    THEN LET new_revealed == DictPut(s.revealed_cards, player_id, action.cards)
         IN  IF SelectCompletes(s, player_id)
             THEN [ s EXCEPT !.revealed_cards = new_revealed, !.phase = "choose" ]
             ELSE [ s EXCEPT !.revealed_cards = new_revealed ]
    ELSE IF action.action_type = "choose_final"
    THEN LET new_choices == DictPut(s.final_choices, player_id, action.final_card)
         IN  IF ChooseCompletes(s, player_id)
             THEN resolve_round(s, new_choices)
             ELSE [ s EXCEPT !.final_choices = new_choices ]
    ELSE s

\* ---- the state machine ---------------------------------------------------
\* the RemoveOneState value currently held
State ==
    [ players |-> players,
      round_num |-> round_num,
      phase |-> phase,
      revealed_cards |-> revealed_cards,
      final_choices |-> final_choices,
      advancement_rounds |-> advancement_rounds,
      discard_pile |-> discard_pile,
      config |-> config ]

Becomes(s) ==
    /\ players' = s.players
    /\ round_num' = s.round_num
    /\ phase' = s.phase
    /\ revealed_cards' = s.revealed_cards
    /\ final_choices' = s.final_choices
    /\ advancement_rounds' = s.advancement_rounds
    /\ discard_pile' = s.discard_pile
    /\ config' = s.config

\* no round has been resolved yet
NoResolution == [ done |-> FALSE, has_winner |-> FALSE ]

\* state = game_class(self.config)
NewGame ==
    /\ \E cfg \in Configs :
          /\ players = InitialState(cfg).players
          /\ round_num = InitialState(cfg).round_num
          /\ phase = InitialState(cfg).phase
          /\ revealed_cards = InitialState(cfg).revealed_cards
          /\ final_choices = InitialState(cfg).final_choices
          /\ advancement_rounds = InitialState(cfg).advancement_rounds
          /\ discard_pile = InitialState(cfg).discard_pile
          /\ config = InitialState(cfg).config
    /\ resolved = NoResolution

\* a state object used on its own: no engine, no bots
Init ==
    /\ NewGame
    /\ bots = << >>
    /\ pc = "ask"
    /\ actions = << >>
    /\ bot_views = EmptyDict
    /\ history = << >>
    /\ observed = << >>

\* the engine plays while not state.is_terminal(); the model stops after MaxRound
Playing == ~ is_terminal(State) /\ round_num <= MaxRound

\* one legal select_cards action applied with apply_action
SelectCards ==
    /\ Playing
    /\ phase = "select"
    /\ \E p \in PlayerIds(State) : \E a \in get_legal_actions(State, p) :
          Becomes(apply_action(State, a, p))
    /\ UNCHANGED << resolved, engine_vars >>

\* one legal choose_final action that leaves the round open
ChooseFinal ==
    /\ Playing
    /\ phase = "choose"
    /\ \E p \in PlayerIds(State) : \E a \in get_legal_actions(State, p) :
          /\ ~ ChooseCompletes(State, p)
          /\ Becomes(apply_action(State, a, p))
    /\ UNCHANGED << resolved, engine_vars >>

\* the legal choose_final action that completes final_choices: the round resolves
ResolveRound ==
    /\ Playing
    /\ phase = "choose"
    /\ \E p \in PlayerIds(State) : \E a \in get_legal_actions(State, p) :
          /\ ChooseCompletes(State, p)
          /\ Becomes(apply_action(State, a, p))
          /\ resolved' = ResolveLocals(State, DictPut(final_choices, p, a.final_card))
    /\ UNCHANGED engine_vars

Next == SelectCards \/ ChooseFinal \/ ResolveRound

Spec == Init /\ [][Next]_vars

\* ---- RemoveOneAction.is_valid ---------------------------------------------
\* the validity test without the elimination test
is_valid_ignoring_elimination(action, s, player_id) ==
    IF action.action_type = "select_cards" /\ s.phase = "select" THEN
        /\ Len(action.cards) = 2
        /\ \A i \in DOMAIN action.cards : Contains(s.players[player_id].hand, action.cards[i])
    ELSE IF action.action_type = "choose_final" /\ s.phase = "choose" THEN
        /\ player_id \in DOMAIN s.revealed_cards
        /\ Contains(s.revealed_cards[player_id], action.final_card)
    ELSE FALSE

is_valid(action, s, player_id) ==
    IF s.players[player_id].eliminated THEN FALSE
    ELSE IF action.action_type = "select_cards" /\ s.phase = "select" THEN
        /\ Len(action.cards) = 2
        /\ \A i \in DOMAIN action.cards : Contains(s.players[player_id].hand, action.cards[i])
    ELSE IF action.action_type = "choose_final" /\ s.phase = "choose" THEN
        /\ player_id \in DOMAIN s.revealed_cards
        /\ Contains(s.revealed_cards[player_id], action.final_card)
    ELSE FALSE

\* ---- get_bot_view ---------------------------------------------------------
\* the view with final_choices among the public fields
get_bot_view_with_final_choices(s, player_id) ==
    [ public_info |->
        [ round_num |-> s.round_num,
          phase |-> s.phase,
          advancement_rounds |-> s.advancement_rounds,
          players_scores |-> [ p \in PlayerIds(s) |-> s.players[p].score ],
          players_tokens |-> [ p \in PlayerIds(s) |-> s.players[p].victory_tokens ],
          players_eliminated |-> [ p \in PlayerIds(s) |-> s.players[p].eliminated ],
          revealed_cards |-> s.revealed_cards,
          final_choices |-> s.final_choices,
          discard_pile |-> s.discard_pile ],
      private_info |->
        [ hand |-> s.players[player_id].hand,
          holding_box |-> s.players[player_id].holding_box,
          my_score |-> s.players[player_id].score,
          my_tokens |-> s.players[player_id].victory_tokens ],
      legal_actions |-> get_legal_actions(s, player_id) ]

get_bot_view(s, player_id) ==
    [ public_info |->
        [ round_num |-> s.round_num,
          phase |-> s.phase,
          advancement_rounds |-> s.advancement_rounds,
          players_scores |-> [ p \in PlayerIds(s) |-> s.players[p].score ],
          players_tokens |-> [ p \in PlayerIds(s) |-> s.players[p].victory_tokens ],
          players_eliminated |-> [ p \in PlayerIds(s) |-> s.players[p].eliminated ],
          revealed_cards |-> s.revealed_cards,
          discard_pile |-> s.discard_pile ],
      private_info |->
        [ hand |-> s.players[player_id].hand,
          holding_box |-> s.players[player_id].holding_box,
          my_score |-> s.players[player_id].score,
          my_tokens |-> s.players[player_id].victory_tokens ],
      legal_actions |-> get_legal_actions(s, player_id) ]

\* ---- the bots ------------------------------------------------------------
BotClasses == { "RandomBot", "GreedyBot" }

\* RandomBot.get_action: the actions it can return for a view
RandomBot_get_action(view, player_id) ==
    IF view.legal_actions = {}
    THEN LET hand == view.private_info.hand
         IN  IF Len(hand) >= 2
             THEN { [ action_type |-> "select_cards", cards |-> << hand[1], hand[2] >> ] }
             ELSE { [ action_type |-> "select_cards", cards |-> << 1, 2 >> ] }
    ELSE view.legal_actions

\* GreedyBot.get_action: the action it returns, or nothing where hand[1] or
\* revealed_cards[player_id] raises
GreedyBot_get_action(view, player_id) ==
    IF view.public_info.phase = "select" THEN
        LET hand == view.private_info.hand
        IN  IF Len(hand) >= 2
            THEN { [ action_type |-> "select_cards", cards |-> << hand[1], hand[2] >> ] }
            ELSE {}
    ELSE IF view.public_info.phase = "choose" THEN
        IF player_id \in DOMAIN view.public_info.revealed_cards
        THEN LET my_revealed == view.public_info.revealed_cards[player_id]
             IN  { [ action_type |-> "choose_final",
                     final_card |-> IF my_revealed[1] <= my_revealed[2]
                                    THEN my_revealed[1] ELSE my_revealed[2] ] }
        ELSE {}
    ELSE {}

\* bot.get_action(bot_view, player_id) for a bot of class cls
bot_get_action(cls, view, player_id) ==
    IF cls = "RandomBot" THEN RandomBot_get_action(view, player_id)
    ELSE GreedyBot_get_action(view, player_id)

\* ---- GameEngine -----------------------------------------------------------
\* the player ids _collect_simultaneous_actions has already asked
Asked == { actions[i].player_id : i \in DOMAIN actions }

\* the player ids the "for player_id, bot in enumerate(bots)" loop still has
\* to ask: the non-eliminated seats after the last one asked
ToAsk(s) ==
    { p \in ActiveIds(s) : \A q \in Asked : q < p }

\* the next seat of the enumerate loop
next_to_ask(s) == CHOOSE p \in ToAsk(s) : \A q \in ToAsk(s) : p <= q

\* the state whose views the collection hands out, with the actions
\* collected so far already applied to it
collection_state_applied(s, acts) ==
    IF acts = << >> THEN s
    ELSE apply_action(s, acts[Len(acts)].action, acts[Len(acts)].player_id)

\* the state whose views the collection hands out: its state argument, which
\* no collected action touches
collection_state(s, acts) == s

\* the loop left after its first pass
apply_simultaneous_actions_first_only(s, acts) ==
    IF acts = << >> THEN s
    ELSE apply_action(s, Head(acts).action, Head(acts).player_id)

RECURSIVE apply_simultaneous_actions(_, _)
\* for player_id, action in actions.items(): new_state = new_state.apply_action(...)
apply_simultaneous_actions(s, acts) ==
    IF acts = << >> THEN s
    ELSE apply_simultaneous_actions(apply_action(s, Head(acts).action, Head(acts).player_id),
                                    Tail(acts))

\* the _resolve_round call made while the batch acts was applied to s, if any
BatchResolution(s, acts) ==
    LET last == acts[Len(acts)]
        before_last == apply_simultaneous_actions(s, SubSeq(acts, 1, Len(acts) - 1))
    IN  IF /\ last.action.action_type = "choose_final"
           /\ ChooseCompletes(before_last, last.player_id)
        THEN ResolveLocals(before_last,
                 DictPut(before_last.final_choices, last.player_id, last.action.final_card))
        ELSE resolved

\* history.append((state.copy(), player_id, action)) for every action of the batch
HistoryEntries(after, acts) ==
    [ i \in DOMAIN acts |->
        [ state |-> after, player_id |-> acts[i].player_id, action |-> acts[i].action ] ]

\* every seat notified, eliminated or not
notify_bots_every_seat(bs, s, player_id, action) ==
    [ i \in 1 .. Cardinality(DOMAIN bs) |->
        [ bot_id |-> i - 1, view |-> get_bot_view(s, i - 1),
          player_id |-> player_id, action |-> action ] ]

\* _notify_bots: the observe_action calls made for one action, in the order of
\* the bots list, skipping the seats eliminated in the state given
notify_bots(bs, s, player_id, action) ==
    LET seats == [ i \in 1 .. Cardinality(DOMAIN bs) |-> i - 1 ]
        told == SelectSeq(seats, LAMBDA b : ~ s.players[b].eliminated)
    IN  [ i \in DOMAIN told |->
            [ bot_id |-> told[i], view |-> get_bot_view(s, told[i]),
              player_id |-> player_id, action |-> action ] ]

RECURSIVE batch_notifications(_, _, _)
\* for player_id, action in actions.items(): ... self._notify_bots(bots, state, player_id, action)
batch_notifications(bs, s, acts) ==
    IF acts = << >> THEN << >>
    ELSE notify_bots(bs, s, Head(acts).player_id, Head(acts).action)
             \o batch_notifications(bs, s, Tail(acts))

\* run_game after validation: a new game and one bot per seat
EngineInit ==
    /\ NewGame
    /\ bots \in [ DOMAIN players -> BotClasses ]
    /\ pc = IF is_terminal(State) THEN "returned" ELSE "ask"
    /\ actions = << >>
    /\ bot_views = EmptyDict
    /\ history = << >>
    /\ observed = << >>

\* inside the while loop, before the round limit of the model
Collecting == pc = "ask" /\ round_num <= MaxRound

\* one pass of the collection loop: the next bot gets its view and answers
AskBot ==
    /\ Collecting
    /\ ToAsk(State) # {}
    /\ LET p == next_to_ask(State)
           view == get_bot_view(collection_state(State, actions), p)
       IN  /\ \E a \in bot_get_action(bots[p], view, p) :
                 actions' = Append(actions, [ player_id |-> p, action |-> a ])
           /\ bot_views' = DictPut(bot_views, p, view)
    /\ UNCHANGED << players, round_num, phase, revealed_cards, final_choices,
                    advancement_rounds, discard_pile, config, resolved,
                    bots, pc, history, observed >>

\* the bot asked raises instead of answering: the exception leaves run_game
BotRaises ==
    /\ Collecting
    /\ ToAsk(State) # {}
    /\ LET p == next_to_ask(State)
           view == get_bot_view(collection_state(State, actions), p)
       IN  bot_get_action(bots[p], view, p) = {}
    /\ pc' = "raised"
    /\ UNCHANGED << players, round_num, phase, revealed_cards, final_choices,
                    advancement_rounds, discard_pile, config, resolved,
                    bots, actions, bot_views, history, observed >>

\* the collection is complete: the batch is applied, recorded in the history
\* and the loop condition is tested again
ApplyBatch ==
    /\ Collecting
    /\ ToAsk(State) = {}
    /\ actions # << >>
    /\ LET after == apply_simultaneous_actions(State, actions)
       IN  /\ Becomes(after)
           /\ history' = HistoryEntries(after, actions)
           /\ observed' = batch_notifications(bots, after, actions)
           /\ pc' = IF is_terminal(after) THEN "returned" ELSE "ask"
    /\ resolved' = BatchResolution(State, actions)
    /\ actions' = << >>
    /\ bot_views' = EmptyDict
    /\ UNCHANGED bots

EngineNext == AskBot \/ BotRaises \/ ApplyBatch

SpecEngine == EngineInit /\ [][EngineNext]_vars

\* ---- vocabulary of the properties ----------------------------------------
RECURSIVE SumFn(_)
SumFn(f) ==
    IF DOMAIN f = {} THEN 0
    ELSE LET x == CHOOSE y \in DOMAIN f : TRUE
         IN  f[x] + SumFn([ y \in (DOMAIN f) \ {x} |-> f[y] ])

\* cards in hands and holding boxes
CardsHeld(ps) == SumFn([ p \in DOMAIN ps |-> Len(ps[p].hand) + Len(ps[p].holding_box) ])

CardsRevealed == SumFn([ p \in DOMAIN revealed_cards |-> Len(revealed_cards[p]) ])

CardsDealt == config.num_players * config.hand_size

\* every active player has selected and nobody has chosen yet
AfterSelectBatch == phase = "choose" /\ final_choices = EmptyDict

\* the state a round resolution produced, before any action of the next round
AfterResolution ==
    /\ resolved.done
    /\ round_num = resolved.before.round_num + 1
    /\ phase = "select"
    /\ revealed_cards = EmptyDict

\* players that were active when the last round was resolved
WasActive == ActiveIds(resolved.before)

\* the card of a revealed pair that was not the final choice
Unchosen(p) ==
    Range(resolved.before.revealed_cards[p]) \ { resolved.final_choices[p] }

Hand(ps, p) == Range(ps[p].hand)

Box(ps, p) == Range(ps[p].holding_box)

\* ---- C1 ------------------------------------------------------------------
\* C1: in every reachable state, cards in hands + cards in holding boxes +
\* discard pile + revealed cards + recorded final choices = num_players * hand_size.
C1_CardConservation ==
    CardsHeld(players) + Len(discard_pile) + CardsRevealed
        + Cardinality(DOMAIN final_choices) = CardsDealt

\* ---- C2 ------------------------------------------------------------------
\* C2: after a select batch and after the round resolves, with or without a
\* winner, cards in hands + holding boxes + discard pile still equal the
\* num_players * hand_size cards of the initial state.
C2_ConservedThroughRound ==
    (AfterSelectBatch \/ AfterResolution) =>
        CardsHeld(players) + Len(discard_pile) = CardsDealt

\* ---- C3 ------------------------------------------------------------------
\* cards submitted by exactly one player in the resolved round
SubmittedOnce ==
    LET fc == resolved.final_choices
    IN  { c \in Range(fc) : \E p \in DOMAIN fc :
              fc[p] = c /\ \A q \in DOMAIN fc : fc[q] = c => q = p }

\* players whose victory-token count the last resolution raised
TokenGainers ==
    { p \in DOMAIN players :
          players[p].victory_tokens > resolved.before.players[p].victory_tokens }

\* final choices {0:3, 1:5, 2:5, 3:2}
ExampleChoices == [ p \in 0 .. 3 |-> << 3, 5, 5, 2 >>[p + 1] ]

\* C3: when a round resolves, the round winner is the active player who
\* submitted the smallest card submitted by exactly one active player, and
\* there is no winner when no card was submitted exactly once; the choices
\* {0:3, 1:5, 2:5, 3:2} make player 3 win with card 2.
C3_UniqueMinimumWins ==
    /\ resolved.done =>
          IF SubmittedOnce = {}
          THEN ~ resolved.has_winner /\ TokenGainers = {}
          ELSE /\ resolved.has_winner
               /\ resolved.winner_id \in WasActive
               /\ resolved.winning_card \in SubmittedOnce
               /\ \A c \in SubmittedOnce : resolved.winning_card <= c
               /\ resolved.final_choices[resolved.winner_id] = resolved.winning_card
               /\ TokenGainers = { resolved.winner_id }
    /\ unique_cards(ExampleChoices) # {}
    /\ winner_id(ExampleChoices) = 3
    /\ winning_card(ExampleChoices) = 2

\* a resolved round in which two different cards were each submitted once
C3_Witness ==
    /\ AfterResolution
    /\ resolved.has_winner
    /\ Cardinality(SubmittedOnce) >= 2

\* ---- C4 ------------------------------------------------------------------
IsPrefix(s, u) == Len(s) <= Len(u) /\ SubSeq(u, 1, Len(s)) = s

\* the step that resolves a round
ResolutionStep == round_num' # round_num

\* C4: resolving a round that has a winner appends exactly the winning card to
\* the discard pile, and no transition removes a card from the discard pile.
C4_DiscardOnWin ==
    [][ /\ (ResolutionStep /\ resolved'.has_winner) =>
               discard_pile' = Append(discard_pile, resolved'.winning_card)
        /\ IsPrefix(discard_pile, discard_pile') ]_vars

\* ---- C5 ------------------------------------------------------------------
\* score and victory tokens of every player are what they were before the round
NoAward ==
    \A p \in DOMAIN players :
        /\ players[p].score = resolved.before.players[p].score
        /\ players[p].victory_tokens = resolved.before.players[p].victory_tokens

\* the chosen card alone in the holding box, the old holding-box card and the
\* unchosen revealed card in the hand
RelocatedAsNonWinner(p) ==
    /\ players[p].holding_box = << resolved.final_choices[p] >>
    /\ Box(resolved.before.players, p) \subseteq Hand(players, p)
    /\ Unchosen(p) # {}
    /\ Unchosen(p) \subseteq Hand(players, p)

\* C5: after a round without a winner the discard pile, the scores and the
\* victory tokens are unchanged, and every active player has the chosen card as
\* the sole content of the holding box, the previous holding-box card back in
\* the hand and the unchosen revealed card in the hand.
C5_NoDiscardOnTie ==
    (AfterResolution /\ ~ resolved.has_winner) =>
        /\ discard_pile = resolved.before.discard_pile
        /\ NoAward
        /\ \A p \in WasActive : RelocatedAsNonWinner(p)

\* a round without a winner, resolved while a holding box was occupied
C5_Witness ==
    /\ AfterResolution
    /\ ~ resolved.has_winner
    /\ \E p \in WasActive : resolved.before.players[p].holding_box # << >>

\* ---- C6 ------------------------------------------------------------------
\* final choices {0:1, 1:2, 2:1}
TieChoices == [ p \in 0 .. 2 |-> << 1, 2, 1 >>[p + 1] ]

ResolvedTieExample ==
    AfterResolution /\ WasActive = 0 .. 2 /\ resolved.final_choices = TieChoices

\* C6 as claimed: resolving final choices {0:1, 1:2, 2:1} of active players
\* 0, 1, 2 yields no winner: no score changes, nothing is discarded, and the
\* three chosen cards are in their owners' holding boxes.
C6_TieExample ==
    ResolvedTieExample =>
        /\ ~ resolved.has_winner
        /\ NoAward
        /\ discard_pile = resolved.before.discard_pile
        /\ \A p \in 0 .. 2 : players[p].holding_box = << TieChoices[p] >>

\* C6 amended: resolving final choices {0:1, 1:2, 2:1} of active players
\* 0, 1, 2 makes player 1 the winner with card 2, the only card submitted
\* once: player 1's score grows by 2, no other score changes, and the chosen
\* cards of players 0 and 2 are in their owners' holding boxes.
C6_ExampleWonByPlayerOne ==
    ResolvedTieExample =>
        /\ resolved.has_winner
        /\ resolved.winner_id = 1
        /\ resolved.winning_card = 2
        /\ players[1].score = resolved.before.players[1].score + 2
        /\ \A p \in { 0, 2 } :
               /\ players[p].score = resolved.before.players[p].score
               /\ players[p].holding_box = << TieChoices[p] >>

C6_Witness == ResolvedTieExample

\* ---- C7 ------------------------------------------------------------------
\* C7: when round r resolves with winner w and winning card c, w's score grows
\* by exactly c, w's victory_tokens by exactly 1 and w's last_victory_round
\* becomes r; score, victory_tokens and last_victory_round of every other
\* player are unchanged.
C7_WinnerAward ==
    (AfterResolution /\ resolved.has_winner) =>
        \A p \in DOMAIN players :
            LET old == resolved.before.players[p]
                new == players[p]
            IN  IF p = resolved.winner_id
                THEN /\ new.score = old.score + resolved.winning_card
                     /\ new.victory_tokens = old.victory_tokens + 1
                     /\ new.last_victory_round = resolved.before.round_num
                ELSE /\ new.score = old.score
                     /\ new.victory_tokens = old.victory_tokens
                     /\ new.last_victory_round = old.last_victory_round

\* a player who had already scored wins a later round
C7_Witness ==
    /\ AfterResolution
    /\ resolved.has_winner
    /\ resolved.before.players[resolved.winner_id].score > 0
    /\ resolved.before.round_num > resolved.before.players[resolved.winner_id].last_victory_round

\* ---- C8 ------------------------------------------------------------------
UnchosenOf(revealed, choice) == Range(revealed) \ { choice }

\* no card enters a player's hand or holding box that was in neither before
NoCardComesBack ==
    \A p \in DOMAIN players :
        Hand(players', p) \cup Box(players', p) \subseteq Hand(players, p) \cup Box(players, p)

C9_NonWinnerRelocation ==
    (AfterResolution /\ resolved.has_winner) =>
        \A p \in WasActive \ { resolved.winner_id } :
            /\ RelocatedAsNonWinner(p)
            /\ resolved.final_choices[p] \notin Hand(players, p)

\* a round with a winner in which a non-winner had a card in the holding box
C9_Witness ==
    /\ AfterResolution
    /\ resolved.has_winner
    /\ \E p \in WasActive \ { resolved.winner_id } :
          resolved.before.players[p].holding_box # << >>

\* ---- C10 -----------------------------------------------------------------
EliminatedIds(ps) == { p \in DOMAIN ps : ps[p].eliminated }

\* the last element of the configured advancement rounds
LastAdvancementRound == advancement_rounds[Len(advancement_rounds)]

\* C10: whenever a round in the advancement-round set, other than the final
\* one, resolves with more than one active player, exactly one more player is
\* eliminated in the resulting state, with or without a round winner, and that
\* player leads on the scores that include the round's award.
C10_EliminationEveryAdvancementRound ==
    ( /\ AfterResolution
      /\ resolved.before.round_num \in Range(advancement_rounds)
      /\ resolved.before.round_num # LastAdvancementRound
      /\ resolved.before.round_num # FinalRound
      /\ Cardinality(WasActive) > 1 ) =>
        \E e \in WasActive :
            /\ EliminatedIds(players) = EliminatedIds(resolved.before.players) \cup {e}
            /\ \A q \in WasActive : ~ LexLess(HighKey(players[e]), HighKey(players[q]))

\* ---- C11 -----------------------------------------------------------------
\* the players eliminated by the last resolution
NewlyEliminated == EliminatedIds(players) \ EliminatedIds(resolved.before.players)

\* the last resolution was that of an advancement round other than the last
\* configured one
AfterNonFinalAdvancement ==
    /\ AfterResolution
    /\ resolved.before.round_num \in Range(advancement_rounds)
    /\ resolved.before.round_num # LastAdvancementRound

\* (score, victory_tokens, last_victory_round) of player p as it stands now
Standing(p) == << players[p].score, players[p].victory_tokens, players[p].last_victory_round >>

\* C11: the player eliminated at a non-final advancement round was active and
\* has the one lexicographically greatest (score, victory_tokens,
\* last_victory_round) among the players active in that round, so players
\* level on score and tokens are separated by last_victory_round and the
\* state alone determines who is eliminated.
C11_LeaderEliminated ==
    AfterNonFinalAdvancement =>
        \A e \in NewlyEliminated :
            /\ e \in WasActive
            /\ \A q \in WasActive \ {e} : LexLess(Standing(q), Standing(e))

\* the eliminated player was level on score and tokens with a survivor
C11_Witness ==
    /\ AfterNonFinalAdvancement
    /\ \E e \in NewlyEliminated : \E q \in WasActive \ {e} :
          /\ players[q].score = players[e].score
          /\ players[q].victory_tokens = players[e].victory_tokens
          /\ players[q].last_victory_round < players[e].last_victory_round

\* ---- C12 -----------------------------------------------------------------
\* the last resolution was that of the last configured advancement round
AfterFinalAdvancement ==
    /\ AfterResolution
    /\ resolved.before.round_num = LastAdvancementRound

\* (score, victory_tokens, -last_victory_round) of player p as it stands now
TrailerStanding(p) ==
    << players[p].score, players[p].victory_tokens, 0 - players[p].last_victory_round >>

\* C12: when the final advancement round resolves with exactly three active
\* players, exactly one of them is eliminated and it is one with the
\* lexicographically least (score, victory_tokens, -last_victory_round); with
\* any other number of active players nobody is eliminated.
C12_FinalRoundElimination ==
    AfterFinalAdvancement =>
        IF Cardinality(WasActive) = 3
        THEN \E e \in WasActive :
                /\ NewlyEliminated = {e}
                /\ \A q \in WasActive : ~ LexLess(TrailerStanding(q), TrailerStanding(e))
        ELSE NewlyEliminated = {}

\* ---- C13 -----------------------------------------------------------------
\* C13: the final round is the last element of the configured advancement
\* rounds: a player eliminated when that round resolves is one with the least
\* (score, victory_tokens, -last_victory_round), and a state with two active
\* players is terminal exactly when round_num is past that round.
C13_FinalRoundFromConfiguration ==
    /\ AfterFinalAdvancement =>
           \A e \in NewlyEliminated :
               \A q \in WasActive : ~ LexLess(TrailerStanding(q), TrailerStanding(e))
    /\ Cardinality(ActiveIds(State)) = 2 =>
           (is_terminal(State) <=> round_num > LastAdvancementRound)

\* ---- C14 -----------------------------------------------------------------
\* C14: a transition eliminates at most one more player, and it eliminates
\* none unless it resolves a round whose number is in advancement_rounds.
C14_EliminationBoundedAndScheduled ==
    [][ /\ Cardinality(EliminatedIds(players')) <= Cardinality(EliminatedIds(players)) + 1
        /\ Cardinality(EliminatedIds(players')) > Cardinality(EliminatedIds(players)) =>
               /\ ResolutionStep
               /\ round_num \in Range(advancement_rounds) ]_vars

\* a resolution has just eliminated a player
C14_Witness ==
    /\ AfterResolution
    /\ Cardinality(NewlyEliminated) = 1
    /\ resolved.before.round_num \in Range(advancement_rounds)

\* ---- C15 -----------------------------------------------------------------
\* C15: an eliminated player stays eliminated, and the player's hand, holding
\* box, score and victory tokens are the same after every later transition.
C15_EliminationPermanent ==
    [][ \A p \in DOMAIN players :
            players[p].eliminated =>
                /\ players'[p].eliminated
                /\ players'[p].hand = players[p].hand
                /\ players'[p].holding_box = players[p].holding_box
                /\ players'[p].score = players[p].score
                /\ players'[p].victory_tokens = players[p].victory_tokens ]_vars

\* a round has been resolved while a player with a card in the holding box
\* was already eliminated
C15_Witness ==
    /\ AfterResolution
    /\ \E p \in EliminatedIds(resolved.before.players) :
          resolved.before.players[p].holding_box # << >>

\* ---- C16 -----------------------------------------------------------------
\* select_cards actions a caller can build for any player: two different card
\* values of the deck, whether or not the player holds them
AnySelectActions ==
    { [ action_type |-> "select_cards", cards |-> << a, b >> ] :
          a \in 1..config.hand_size, b \in 1..config.hand_size } \ 
    { [ action_type |-> "select_cards", cards |-> << a, a >> ] : a \in 1..config.hand_size }

\* apply_action called directly, during the select phase, with a select_cards
\* action and the id of an eliminated player; the method tests neither the
\* eliminated flag nor the hand
ApplySelectForEliminated ==
    /\ Playing
    /\ phase = "select"
    /\ \E p \in EliminatedIds(players) : \E a \in AnySelectActions :
          Becomes(apply_action(State, a, p))
    /\ UNCHANGED << resolved, engine_vars >>

\* the game driven by legal actions, with direct apply_action calls on behalf
\* of eliminated players in between
SpecDirectCalls == Init /\ [][Next \/ ApplySelectForEliminated]_vars

\* C16: no eliminated player has an entry in revealed_cards or final_choices
\* or a legal action, also after an action has been applied on behalf of an
\* eliminated player.
C16_EliminatedInert ==
    \A p \in EliminatedIds(players) :
        /\ p \notin DOMAIN revealed_cards
        /\ p \notin DOMAIN final_choices
        /\ get_legal_actions(State, p) = {}

\* ---- C17 -----------------------------------------------------------------
\* C17: is_terminal is true exactly when fewer than two players are active,
\* or round_num is past the final scheduled elimination round and exactly two
\* players are active; with three or more active players it is false.
C17_TerminalCondition ==
    LET n == Cardinality(ActiveIds(State))
    IN  /\ is_terminal(State) <=>
               (n < 2 \/ (round_num > LastAdvancementRound /\ n = 2))
        /\ n >= 3 => ~ is_terminal(State)

\* ---- C18 -----------------------------------------------------------------
\* C18: a run of run_game in which the agents play legal actions goes on
\* until is_terminal holds and then returns: no call into an agent raises,
\* every agent about to be asked has a legal action to play, and when the run
\* has returned the state is terminal and is the last one recorded in history.
C18_RunGameTerminates ==
    /\ pc # "raised"
    /\ pc = "ask" => \A p \in ActiveIds(State) : get_legal_actions(State, p) # {}
    /\ pc = "returned" =>
           /\ is_terminal(State)
           /\ history # << >>
           /\ history[Len(history)].state = State

\* ---- C19 -----------------------------------------------------------------
\* the collection is complete and holds an action that is_valid rejects
InvalidActionCollected ==
    /\ Collecting
    /\ ToAsk(State) = {}
    /\ \E i \in DOMAIN actions : ~ is_valid(actions[i].action, State, actions[i].player_id)

\* C19: when a collected action is not valid in the pre-apply state, the
\* next step of run_game is the abort, and the state is left as it was.
C19_IllegalActionsFatal ==
    [][ InvalidActionCollected => (pc' = "raised" /\ State' = State) ]_vars

\* ---- C20 -----------------------------------------------------------------
\* C20: during a collection the bots are asked in ascending id order, each
\* active one at most once and none that is eliminated; every view handed out
\* is the view of the one state the collection started from, which holds no
\* decision of the current phase (no selection in phase select, no final
\* choice ever) and the complete set of selections in phase choose, so that
\* a batch is only ever applied whole.
C20_SnapshotIsolatedCollection ==
    pc = "ask" =>
        /\ \A i, j \in DOMAIN actions : i < j => actions[i].player_id < actions[j].player_id
        /\ Asked \subseteq ActiveIds(State)
        /\ \A p \in ActiveIds(State) \ Asked : \A q \in Asked : q < p
        /\ DOMAIN bot_views = Asked
        /\ \A p \in Asked :
               /\ bot_views[p] = get_bot_view(State, p)
               /\ phase = "select" => bot_views[p].public_info.revealed_cards = EmptyDict
        /\ final_choices = EmptyDict
        /\ phase = "select" => revealed_cards = EmptyDict
        /\ phase = "choose" => DOMAIN revealed_cards = ActiveIds(State)

\* two bots have answered in the select phase of a game with an eliminated
\* player, and nothing has been applied yet
C20_Witness ==
    /\ pc = "ask"
    /\ Len(actions) = 2
    /\ phase = "select"
    /\ EliminatedIds(players) # {}
    /\ actions[1].action.cards # actions[2].action.cards

\* ---- C21 -----------------------------------------------------------------
\* the batches holding one legal action for every active player of s
LegalBatches(s) ==
    { b \in [ ActiveIds(s) -> UNION { get_legal_actions(s, p) : p \in ActiveIds(s) } ] :
          \A p \in ActiveIds(s) : b[p] \in get_legal_actions(s, p) }

\* the orders in which the keys of a dict over ids can have been inserted
InsertionOrders(ids) ==
    { o \in [ 1..Cardinality(ids) -> ids ] :
          \A i, j \in 1..Cardinality(ids) : i # j => o[i] # o[j] }

\* the actions dict holding batch b, inserted in order o
BatchInOrder(b, o) ==
    [ i \in DOMAIN o |-> [ player_id |-> o[i], action |-> b[o[i]] ] ]

\* every order of every legal batch takes s to the same state
OrderIndependent(s) ==
    \A b \in LegalBatches(s) :
        \A o1, o2 \in InsertionOrders(ActiveIds(s)) :
            apply_simultaneous_actions(s, BatchInOrder(b, o1)) =
                apply_simultaneous_actions(s, BatchInOrder(b, o2))

\* no active player has an entry for the phase that is being played
NoDecisionYet ==
    \/ phase = "select" /\ revealed_cards = EmptyDict /\ final_choices = EmptyDict
    \/ phase = "choose" /\ final_choices = EmptyDict

C22_LastWriteWins ==
    \A p \in ActiveIds(State) : \A a \in get_legal_actions(State, p) :
        LET t == apply_action(State, a, p)
        IN  /\ (a.action_type = "select_cards" /\ p \in DOMAIN revealed_cards) =>
                   /\ t.revealed_cards = [ revealed_cards EXCEPT ![p] = a.cards ]
                   /\ t.final_choices = final_choices
                   /\ ActiveIds(State) \ DOMAIN revealed_cards # {} =>
                          (t.phase = phase /\ t.round_num = round_num)
            /\ (a.action_type = "choose_final" /\ p \in DOMAIN final_choices) =>
                   /\ ActiveIds(State) \ DOMAIN final_choices # {} =>
                          /\ t.final_choices = [ final_choices EXCEPT ![p] = a.final_card ]
                          /\ t.revealed_cards = revealed_cards
                          /\ t.phase = phase
                          /\ t.round_num = round_num
                          /\ t.players = players

\* a player has chosen, can still choose the other revealed card, and
\* another active player has not chosen yet
C22_Witness ==
    /\ phase = "choose"
    /\ ActiveIds(State) \ DOMAIN final_choices # {}
    /\ \E p \in DOMAIN final_choices : \E a \in get_legal_actions(State, p) :
          a.final_card # final_choices[p]

\* ---- C23 -----------------------------------------------------------------
\* C23: the phase is always select or choose; a step taken in phase select
\* ends in phase choose exactly when every active player has a selection
\* after it; a step taken in phase choose resolves the round (phase select
\* again) exactly when the final choices it completes cover every active
\* player, and otherwise leaves some active player without a final choice.
C23_PhaseProtocol ==
    [][ /\ phase \in { "select", "choose" }
        /\ phase' \in { "select", "choose" }
        /\ phase = "select" =>
               (phase' = "choose" <=> ActiveIds(State) \subseteq DOMAIN revealed_cards')
        /\ phase = "choose" =>
               IF phase' = "select"
               THEN /\ resolved'.done
                    /\ resolved'.before = State
                    /\ DOMAIN resolved'.final_choices = ActiveIds(State)
                    /\ \A q \in DOMAIN final_choices :
                           q \in DOMAIN resolved'.final_choices
               ELSE /\ ActiveIds(State) \ DOMAIN final_choices' # {}
                    /\ revealed_cards' = revealed_cards ]_vars

\* a second round has reached its choose phase
C23_Witness ==
    /\ resolved.done
    /\ phase = "choose"
    /\ final_choices # EmptyDict

\* ---- C24 -----------------------------------------------------------------
\* C24: round_num is 1 until the first round is resolved, grows by exactly
\* one in every transition that resolves a round (phase choose to phase
\* select) and is unchanged by every other transition.
C24_RoundCounter ==
    [][ /\ ~ resolved.done => round_num = 1
        /\ IF phase = "choose" /\ phase' = "select"
           THEN round_num' = round_num + 1
           ELSE round_num' = round_num ]_vars

\* a round without a winner and a round with a winner and an elimination
\* have both been resolved
C24_Witness ==
    /\ AfterResolution
    /\ round_num = 3
    /\ resolved.has_winner
    /\ NewlyEliminated # {}
    /\ WasActive = DOMAIN players
    /\ \A p \in WasActive : resolved.before.players[p].score = 0

\* ---- C25 -----------------------------------------------------------------
\* C25: a transition that resolves a round leaves revealed_cards and
\* final_choices empty; any other transition removes no entry from either
\* map, and revealed_cards does not change at all during the choose phase.
C25_TransientMapReset ==
    [][ IF phase = "choose" /\ phase' = "select"
        THEN /\ revealed_cards' = EmptyDict
             /\ final_choices' = EmptyDict
        ELSE /\ DOMAIN revealed_cards \subseteq DOMAIN revealed_cards'
             /\ DOMAIN final_choices \subseteq DOMAIN final_choices'
             /\ phase = "choose" => revealed_cards' = revealed_cards ]_vars

\* the second round has been resolved, without a winner
C25_Witness ==
    /\ resolved.done
    /\ ~ resolved.has_winner
    /\ resolved.before.round_num = 2
    /\ round_num = 3
    /\ revealed_cards = EmptyDict
    /\ final_choices = EmptyDict

\* ---- C26 -----------------------------------------------------------------
\* other contents a hand or a holding box could have
OtherCards == { << >>, << 1 >>, << 2, 3 >> }

\* other contents final_choices could have: empty, or one player's choice
OtherChoices ==
    { EmptyDict } \cup
    { [ x \in {q} |-> c ] : q \in DOMAIN players, c \in 1..config.hand_size }

\* the states that differ from s only in q's hand, or only in q's holding
\* box, or only in final_choices
Variants(s, q) ==
    { [ s EXCEPT !.players[q].hand = h ] : h \in OtherCards } \cup
    { [ s EXCEPT !.players[q].holding_box = h ] : h \in OtherCards } \cup
    { [ s EXCEPT !.final_choices = f ] : f \in OtherChoices }

\* C26: the view of player P is the same on any two states that differ only
\* in another player Q's hand, in Q's holding box or in final_choices; its
\* public part has no final_choices field and no hand or holding box, and its
\* private part holds P's own hand and holding box.
C26_ViewNonLeakage ==
    \A P \in DOMAIN players :
        /\ \A Q \in DOMAIN players \ {P} : \A t \in Variants(State, Q) :
               get_bot_view(t, P) = get_bot_view(State, P)
        /\ DOMAIN get_bot_view(State, P).public_info =
               { "round_num", "phase", "advancement_rounds", "players_scores",
                 "players_tokens", "players_eliminated", "revealed_cards", "discard_pile" }
        /\ DOMAIN get_bot_view(State, P).private_info =
               { "hand", "holding_box", "my_score", "my_tokens" }
        /\ get_bot_view(State, P).private_info.hand = players[P].hand
        /\ get_bot_view(State, P).private_info.holding_box = players[P].holding_box

\* a bot has been handed its view in a choose phase while another player
\* holds a card in the holding box
C26_Witness ==
    /\ pc = "ask"
    /\ phase = "choose"
    /\ \E P \in DOMAIN bot_views : \E Q \in DOMAIN players \ {P} :
          /\ players[Q].holding_box # << >>
          /\ players[Q].hand # players[P].hand

\* ---- C27 -----------------------------------------------------------------
\* actions a caller can submit: select_cards naming two card values in
\* ascending order or the same value twice, and choose_final naming a value
SubmittableActions ==
    { [ action_type |-> "select_cards", cards |-> << ab[1], ab[2] >> ] :
          ab \in { x \in (1..config.hand_size) \X (1..config.hand_size) : x[1] <= x[2] } }
    \cup
    { [ action_type |-> "choose_final", final_card |-> c ] : c \in 1..config.hand_size }

\* every choice of two different positions of the hand
TwoCombinations(hand) ==
    { [ action_type |-> "select_cards", cards |-> << hand[ij[1]], hand[ij[2]] >> ] :
          ij \in { x \in (DOMAIN hand) \X (DOMAIN hand) : x[1] < x[2] } }

\* C27: for every active player get_legal_actions is the set of
\* 2-combinations of the hand in phase select and one choose_final per own
\* revealed card in phase choose, and a submitted action passes is_valid
\* exactly when it is in that list.
C27_LegalActionsAgreeWithValidation ==
    \A p \in DOMAIN players :
        /\ (phase = "select" /\ ~ players[p].eliminated) =>
               get_legal_actions(State, p) = TwoCombinations(players[p].hand)
        /\ (phase = "choose" /\ p \in DOMAIN revealed_cards /\ ~ players[p].eliminated) =>
               get_legal_actions(State, p) =
                   { [ action_type |-> "choose_final", final_card |-> c ] :
                         c \in Range(revealed_cards[p]) }
        /\ \A a \in SubmittableActions :
               is_valid(a, State, p) <=> a \in get_legal_actions(State, p)

\* ---- C28 -----------------------------------------------------------------
\* actions of either type naming any card values, held or not
CandidateActions ==
    { [ action_type |-> "select_cards", cards |-> << ab[1], ab[2] >> ] :
          ab \in (1..(config.hand_size + 1)) \X (1..(config.hand_size + 1)) }
    \cup
    { [ action_type |-> "choose_final", final_card |-> c ] : c \in 1..(config.hand_size + 1) }

OwnRevealed(p) == IF p \in DOMAIN revealed_cards THEN Range(revealed_cards[p]) ELSE {}

\* C28: is_valid is false for any action of an eliminated player, for a
\* select_cards action outside phase select or naming a card that is not in
\* the player's hand, and for a choose_final action outside phase choose or
\* naming a card that is not among the player's own revealed cards.
C28_OutOfContextRejected ==
    \A p \in DOMAIN players : \A a \in CandidateActions :
        /\ players[p].eliminated => ~ is_valid(a, State, p)
        /\ (a.action_type = "select_cards"
              /\ (phase # "select" \/ \E i \in 1..2 : a.cards[i] \notin Range(players[p].hand)))
             => ~ is_valid(a, State, p)
        /\ (a.action_type = "choose_final"
              /\ (phase # "choose" \/ a.final_card \notin OwnRevealed(p)))
             => ~ is_valid(a, State, p)

\* phase choose with an eliminated player who still holds cards, and an
\* active player for whom one card is accepted as final choice and another
\* card, which it has not revealed, is rejected
C28_Witness ==
    /\ phase = "choose"
    /\ \E p \in DOMAIN players : players[p].eliminated /\ players[p].hand # << >>
    /\ \E q \in DOMAIN players :
          /\ ~ players[q].eliminated
          /\ \E c \in OwnRevealed(q) :
                is_valid([ action_type |-> "choose_final", final_card |-> c ], State, q)
          /\ \E c \in (1..config.hand_size) \ OwnRevealed(q) :
                ~ is_valid([ action_type |-> "choose_final", final_card |-> c ], State, q)

\* ---- C29 -----------------------------------------------------------------
\* the amount get_results adds to the score of a player who is not eliminated
ActiveBonus == 1000

\* results[player.player_id] = 1000 + player.score, or player.score when eliminated
get_results(s) ==
    [ p \in DOMAIN s.players |->
        IF ~ s.players[p].eliminated THEN ActiveBonus + s.players[p].score
        ELSE s.players[p].score ]

\* max(results.items(), key=lambda x: x[1])[0]: the first key, in the order
\* the players were entered, whose value is the largest
reported_winner(results) ==
    CHOOSE p \in DOMAIN results :
        /\ \A q \in DOMAIN results : results[q] <= results[p]
        /\ \A q \in DOMAIN results : results[q] = results[p] => p <= q

\* a game whose hand holds cards worth as much as the bonus
LargeHandConfig ==
    [ num_players |-> 2, hand_size |-> 1001, advancement_rounds |-> << 1, 2 >> ]

LargeHandInit ==
    /\ players = InitialState(LargeHandConfig).players
    /\ round_num = InitialState(LargeHandConfig).round_num
    /\ phase = InitialState(LargeHandConfig).phase
    /\ revealed_cards = InitialState(LargeHandConfig).revealed_cards
    /\ final_choices = InitialState(LargeHandConfig).final_choices
    /\ advancement_rounds = InitialState(LargeHandConfig).advancement_rounds
    /\ discard_pile = InitialState(LargeHandConfig).discard_pile
    /\ config = InitialState(LargeHandConfig).config
    /\ resolved = NoResolution
    /\ bots = << >>
    /\ pc = "ask"
    /\ actions = << >>
    /\ bot_views = EmptyDict
    /\ history = << >>
    /\ observed = << >>

\* the legal select_cards actions naming the two lowest or the two highest
\* cards of the hand
ExtremeSelections(hand) ==
    IF Len(hand) < 2 THEN {}
    ELSE { [ action_type |-> "select_cards", cards |-> << hand[1], hand[2] >> ],
           [ action_type |-> "select_cards",
             cards |-> << hand[Len(hand) - 1], hand[Len(hand)] >> ] }

\* one of those select_cards actions applied with apply_action
SelectExtremeCards ==
    /\ Playing
    /\ phase = "select"
    /\ \E p \in ActiveIds(State) : \E a \in ExtremeSelections(players[p].hand) :
          Becomes(apply_action(State, a, p))
    /\ UNCHANGED << resolved, engine_vars >>

LargeHandNext == SelectExtremeCards \/ ChooseFinal \/ ResolveRound

SpecLargeHand == LargeHandInit /\ [][LargeHandNext]_vars

\* C29: get_results gives every active player 1000 + score, a value of at
\* least 1000, and every eliminated player its score, a value below 1000;
\* every active player is ranked above every eliminated player; and when the
\* game is over with exactly one active player the reported winner is that
\* player.
C29_ResultsRanking ==
    LET results == get_results(State)
    IN  /\ \A p \in DOMAIN players :
              IF players[p].eliminated
              THEN results[p] = players[p].score /\ results[p] < 1000
              ELSE results[p] = 1000 + players[p].score /\ results[p] >= 1000
        /\ \A p \in DOMAIN players : \A q \in DOMAIN players :
              (~ players[p].eliminated /\ players[q].eliminated) => results[p] > results[q]
        /\ (is_terminal(State) /\ Cardinality(ActiveIds(State)) = 1)
              => reported_winner(results) \in ActiveIds(State)

\* ---- C30 -----------------------------------------------------------------
\* the truth value of config.get('advancement_rounds'): false when the entry
\* is missing (None) or is an empty list
HasAdvancementRounds(cfg) ==
    IF "advancement_rounds" \in DOMAIN cfg THEN cfg.advancement_rounds # << >> ELSE FALSE

\* the setup test without the test of the player count
validate_game_setup_rounds_only(cfg) ==
    IF ~ HasAdvancementRounds(cfg) THEN FALSE
    ELSE TRUE

\* GameValidator.validate_game_setup
validate_game_setup(cfg) ==
    IF cfg.num_players < 2 THEN FALSE
    ELSE IF ~ HasAdvancementRounds(cfg) THEN FALSE
    ELSE TRUE

\* the dicts a GameEngine is constructed with
SetupConfigs ==
    Configs \cup
    { [ num_players |-> 1, hand_size |-> 3, advancement_rounds |-> << 1, 2 >> ],
      [ num_players |-> 3, hand_size |-> 3, advancement_rounds |-> << >> ],
      [ num_players |-> 3, hand_size |-> 3 ] }

\* run_game has not yet executed "state = game_class(self.config)"
NoState ==
    /\ players = << >>
    /\ round_num = 0
    /\ phase = "none"
    /\ revealed_cards = EmptyDict
    /\ final_choices = EmptyDict
    /\ advancement_rounds = << >>
    /\ discard_pile = << >>

\* run_game is entered: the engine holds its config and the bots it was given
RunGameInit ==
    /\ config \in SetupConfigs
    /\ NoState
    /\ resolved = NoResolution
    /\ bots \in [ 0 .. (config.num_players - 1) -> BotClasses ]
    /\ pc = "validate"
    /\ actions = << >>
    /\ bot_views = EmptyDict
    /\ history = << >>
    /\ observed = << >>

\* if not self._validate_setup(game_class, bots): raise ValueError(...)
RaiseInvalidSetup ==
    /\ pc = "validate"
    /\ ~ validate_game_setup(config)
    /\ pc' = "raised"
    /\ UNCHANGED << players, round_num, phase, revealed_cards, final_choices,
                    advancement_rounds, discard_pile, config, resolved,
                    bots, actions, bot_views, history, observed >>

\* state = game_class(self.config); history = []; the loop condition is tested
CreateState ==
    /\ pc = "validate"
    /\ validate_game_setup(config)
    /\ Becomes(InitialState(config))
    /\ pc' = IF is_terminal(InitialState(config)) THEN "returned" ELSE "ask"
    /\ UNCHANGED << resolved, bots, actions, bot_views, history, observed >>

RunGameNext == RaiseInvalidSetup \/ CreateState \/ AskBot \/ BotRaises \/ ApplyBatch

SpecRunGame == RunGameInit /\ [][RunGameNext]_vars

\* a player count below 2, or an advancement-round list that is empty or missing
RejectedConfiguration ==
    \/ config.num_players < 2
    \/ "advancement_rounds" \notin DOMAIN config
    \/ config.advancement_rounds = << >>

\* C30: with a player count below 2 or an empty or missing advancement-round
\* list, every step of run_game ends in the raised error, with no game state
\* constructed and no bot asked for an action.
C30_InvalidConfigurationRejected ==
    [][ RejectedConfiguration =>
            /\ pc' = "raised"
            /\ NoState'
            /\ actions' = << >>
            /\ bot_views' = EmptyDict
            /\ history' = << >> ]_vars

\* run_game has raised on a configuration with a single player
C30_Witness ==
    /\ pc = "raised"
    /\ config.num_players < 2
    /\ players = << >>
    /\ bot_views = EmptyDict

\* ---- C31 -----------------------------------------------------------------
NoDuplicates(seq) == \A i \in DOMAIN seq : \A j \in DOMAIN seq : seq[i] = seq[j] => i = j

\* C31: for every player the hand holds no value twice, the holding box holds
\* at most one card, that card is not in the hand, and hand and holding box
\* together hold at most hand_size cards.
C31_PerPlayerCardBounds ==
    \A p \in DOMAIN players :
        /\ NoDuplicates(players[p].hand)
        /\ Len(players[p].holding_box) <= 1
        /\ Range(players[p].holding_box) \cap Range(players[p].hand) = {}
        /\ Len(players[p].hand) + Len(players[p].holding_box) <= config.hand_size

\* two rounds resolved, the second with a winner: a holding-box card of round 1
\* has gone back to a hand, one player holds hand_size cards with one of them
\* in the holding box, and another player holds fewer
C31_Witness ==
    /\ AfterResolution
    /\ resolved.has_winner
    /\ round_num = 3
    /\ \E p \in DOMAIN players :
          /\ Len(players[p].holding_box) = 1
          /\ resolved.before.players[p].holding_box # << >>
          /\ Len(players[p].hand) + Len(players[p].holding_box) = config.hand_size
    /\ \E q \in DOMAIN players :
          Len(players[q].hand) + Len(players[q].holding_box) < config.hand_size

\* ---- C32 -----------------------------------------------------------------
\* state.config.get('hand_size', 9)
ConfiguredHandSize(cfg) == IF "hand_size" \in DOMAIN cfg THEN cfg.hand_size ELSE 9

\* GameValidator.validate_state_consistency: the kinds of error it reports
validate_state_consistency(s) ==
    LET total_cards == SumFn([ p \in DOMAIN s.players |->
                                 Len(s.players[p].hand) + Len(s.players[p].holding_box) ])
                       + Len(s.discard_pile)
        expected_cards == Cardinality(DOMAIN s.players) * (ConfiguredHandSize(s.config) - 1)
    IN  (IF total_cards # expected_cards THEN { "Card count mismatch" } ELSE {})
        \cup
        (IF \E p \in DOMAIN s.players : s.players[p].score < 0
         THEN { "negative score" } ELSE {})

\* the state a game starts from
InitialGameState == round_num = 1 /\ phase = "select" /\ revealed_cards = EmptyDict

\* C32: validate_state_consistency reports no error on the initial state, on
\* the state after every resolved round, and on the final state of a game.
C32_ConsistencyCheckPasses ==
    (InitialGameState \/ AfterResolution \/ is_terminal(State)) =>
        validate_state_consistency(State) = {}

\* ---- C33 -----------------------------------------------------------------
\* the fields of the input state for which apply_action hands a newly built
\* object to copy_with_updates; dataclasses.replace gives the returned state
\* the input state's own object for every other field
replaced_fields(s, action, player_id) ==
    IF action.action_type = "select_cards"
    THEN IF SelectCompletes(s, player_id)
         THEN { "revealed_cards", "phase" }
         ELSE { "revealed_cards" }
    ELSE IF action.action_type = "choose_final"
    THEN IF ChooseCompletes(s, player_id)
         THEN { "players", "phase", "revealed_cards", "final_choices", "round_num" }
         ELSE { "final_choices" }
    ELSE {}

\* C33: for every legal action of every active player, the state returned by
\* apply_action holds transient maps (revealed_cards and final_choices) that
\* are objects of its own, not the maps of the state it was called on.
C33_NoSharedTransientMaps ==
    Playing =>
        \A p \in ActiveIds(State) : \A a \in get_legal_actions(State, p) :
            { "revealed_cards", "final_choices" } \subseteq replaced_fields(State, a, p)

\* ---- C34 -----------------------------------------------------------------
\* the step in which run_game applies a collected batch
BatchApplied == pc = "ask" /\ actions # << >> /\ actions' = << >>

\* the observe_action calls of the new state that tell bot b about entry e of the batch
CallsAbout(b, e) ==
    { i \in DOMAIN observed' :
          /\ observed'[i].bot_id = b
          /\ observed'[i].player_id = e.player_id
          /\ observed'[i].action = e.action }

\* C34: when a batch is applied, for each action of the batch every bot whose
\* player is active in the new state gets exactly one observe_action call with
\* that action and the acting player's id, a bot whose player is eliminated in
\* the new state gets none, no other call is made, and the state the engine
\* goes on with is the batch applied to the old state.
C34_ObservationProtocol ==
    [][ BatchApplied =>
          /\ \A k \in DOMAIN actions : \A b \in DOMAIN bots :
                Cardinality(CallsAbout(b, actions[k])) =
                    IF players'[b].eliminated THEN 0 ELSE 1
          /\ \A i \in DOMAIN observed' : \E k \in DOMAIN actions :
                i \in CallsAbout(observed'[i].bot_id, actions[k])
          /\ State' = apply_simultaneous_actions(State, actions) ]_vars

\* a batch has been applied that eliminated a player: the other bots were told
\* of every action of the batch, the eliminated one of none
C34_Witness ==
    /\ observed # << >>
    /\ AfterResolution
    /\ \E b \in DOMAIN bots :
          /\ players[b].eliminated
          /\ ~ resolved.before.players[b].eliminated
          /\ \A i \in DOMAIN observed : observed[i].bot_id # b
    /\ Len(observed) = Len(history) * Cardinality(ActiveIds(State))

\* ---- C35 -----------------------------------------------------------------
\* C35: in every non-terminal state reached by legal play every active player
\* has a legal action: in phase select its hand holds at least two cards, in
\* phase choose it has revealed cards.
C35_NoStuckActor ==
    ~ is_terminal(State) =>
        \A p \in ActiveIds(State) :
            /\ get_legal_actions(State, p) # {}
            /\ phase = "select" => Len(players[p].hand) >= 2
            /\ phase = "choose" => p \in DOMAIN revealed_cards

\* ---- C36 -----------------------------------------------------------------
\* between two rounds: nothing revealed or chosen yet
RoundBoundary == phase = "select" /\ revealed_cards = EmptyDict /\ final_choices = EmptyDict

TokensWon == SumFn([ p \in DOMAIN players |-> players[p].victory_tokens ])

\* C36: at a round boundary the cards in hands and holding boxes plus the
\* victory tokens of all players add up to num_players * hand_size, and every
\* player holds hand_size minus its victory tokens cards.
C36_CardsTrackWins ==
    RoundBoundary =>
        /\ CardsHeld(players) + TokensWon = config.num_players * config.hand_size
        /\ \A p \in DOMAIN players :
              Len(players[p].hand) + Len(players[p].holding_box)
                  = config.hand_size - players[p].victory_tokens

\* after two resolved rounds one player has won both and another none
C36_Witness ==
    /\ AfterResolution
    /\ round_num = 3
    /\ \E p \in DOMAIN players : players[p].victory_tokens = 2
    /\ \E q \in DOMAIN players : players[q].victory_tokens = 0

\* ---- C37 -----------------------------------------------------------------
\* C37: in every reachable state at least one player is active, and
\* get_results holds at least one value of 1000 or more.
C37_SomeoneSurvives ==
    /\ \E p \in DOMAIN players : ~ players[p].eliminated
    /\ \E p \in DOMAIN players : get_results(State)[p] >= 1000

\* the last resolution eliminated a player and left exactly one active
C37_Witness ==
    /\ AfterResolution
    /\ \E p \in WasActive : players[p].eliminated
    /\ Cardinality({ p \in DOMAIN players : ~ players[p].eliminated }) = 1

\* ---- C38 -----------------------------------------------------------------
\* a step that applies an action without resolving the round
MidRoundStep ==
    /\ round_num' = round_num
    /\ (revealed_cards' # revealed_cards \/ final_choices' # final_choices)

\* C38: an action that does not resolve the round writes one entry of
\* revealed_cards (and sets phase to choose when the selections are complete)
\* or one entry of final_choices; players, round_num, discard_pile and
\* advancement_rounds stay as they are, and every revealed card is still in
\* its owner's hand.
C38_MidRoundFrame ==
    [][ MidRoundStep =>
          /\ players' = players
          /\ discard_pile' = discard_pile
          /\ advancement_rounds' = advancement_rounds
          /\ config' = config
          /\ \/ /\ phase = "select"
                /\ final_choices' = final_choices
                /\ \E p \in ActiveIds(State) : \E a \in get_legal_actions(State, p) :
                      revealed_cards' = [ q \in DOMAIN revealed_cards \cup {p} |->
                                           IF q = p THEN a.cards ELSE revealed_cards[q] ]
                /\ phase' = IF DOMAIN revealed_cards' = ActiveIds(State)
                            THEN "choose" ELSE "select"
             \/ /\ phase = "choose"
                /\ phase' = "choose"
                /\ revealed_cards' = revealed_cards
                /\ \E p \in ActiveIds(State) : \E c \in Range(revealed_cards[p]) :
                      final_choices' = [ q \in DOMAIN final_choices \cup {p} |->
                                           IF q = p THEN c ELSE final_choices[q] ]
          /\ \A p \in DOMAIN revealed_cards' :
                Range(revealed_cards'[p]) \subseteq Range(players'[p].hand) ]_vars

\* the selections are complete and one final choice is recorded: every
\* revealed card, the chosen one included, is in its owner's hand
C38_Witness ==
    /\ phase = "choose"
    /\ final_choices # EmptyDict
    /\ round_num = 2
    /\ \E p \in DOMAIN final_choices :
          /\ final_choices[p] \in Range(players[p].hand)
          /\ players[p].holding_box # << >>

====
